---- MODULE Spec2Model ----
(***************************************************************************)
(* Model of blocks/BasicBlocks.py: five torch.nn.Module subclasses          *)
(* (ResidualBlock, DenseBlock, ConvBottleneck, InceptionBlock,              *)
(* SqueezeAndExciteBlock).  A run of the model is a caller that constructs  *)
(* one block and then invokes it on tensors.  Tensors are modelled by their *)
(* shape (C, H, W) (the batch axis N is carried unchanged by every           *)
(* operation of the file and is left out), their identity (for in-place     *)
(* operations), the                                                         *)
(* channel segments they were concatenated from, and the list of layer      *)
(* applications that produced them.  Python exceptions are modelled by      *)
(* their type and the source line that raises them.                         *)
(***************************************************************************)
EXTENDS Integers, Sequences, FiniteSets

VARIABLES
    pc,          \* "imported" | "constructed" | "raised" (the constructor raised)
    torch_build, \* how the installed torch treats a convolution with an empty weight
    cls,         \* class named in the constructor call
    args,        \* arguments of the constructor call
    block,       \* the constructed module (its layers), NoBlock otherwise
    exc,         \* exception raised by the constructor call
    x,           \* the caller's input tensor, as it is after the last forward call
    out,         \* value of the last forward call (a tensor, or an error)
    prev         \* the forward call before the last one: the shape of its input
                 \* and the shape of its value (or its exception)

vars == <<pc, torch_build, cls, args, block, exc, x, out, prev>>

\* Bounds of the model.
MaxChannels == 4
MaxDownsample == 2
MaxSize == 2

Channels == 1..MaxChannels
Downsamples == 1..MaxDownsample
Sizes == 1..MaxSize

Classes == {"ResidualBlock", "DenseBlock", "ConvBottleneck", "InceptionBlock",
            "SqueezeAndExciteBlock"}

(***************************************************************************)
(* Names.  A Python name that is neither a local of the function nor a      *)
(* module-level name raises NameError; an attribute torch.nn does not have  *)
(* raises AttributeError.                                                   *)
(***************************************************************************)
ModuleNames == {"torch", "nn", "F"} \cup Classes

NNNames == {"Module", "ModuleList", "Sequential", "Conv2d", "BatchNorm2d",
            "ReLU", "Linear"}

Bound(name, locals) == name \in locals \cup ModuleNames

(***************************************************************************)
(* Layers, as the constructors configure them.                              *)
(***************************************************************************)
Conv2d(in_channels, out_channels, kernel_size, stride, padding, groups) ==
    [kind |-> "Conv2d", in_channels |-> in_channels, out_channels |-> out_channels,
     kernel_size |-> kernel_size, stride |-> stride, padding |-> padding,
     groups |-> groups]

BatchNorm2d(num_features) ==
    [kind |-> "BatchNorm2d", in_channels |-> num_features,
     out_channels |-> num_features, kernel_size |-> 0, stride |-> 0,
     padding |-> 0, groups |-> 0]

ReLU ==
    [kind |-> "ReLU", in_channels |-> 0, out_channels |-> 0, kernel_size |-> 0,
     stride |-> 0, padding |-> 0, groups |-> 0]

Linear(in_features, out_features) ==
    [kind |-> "Linear", in_channels |-> in_features, out_channels |-> out_features,
     kernel_size |-> 0, stride |-> 0, padding |-> 0, groups |-> 0]

NoBlock == [cls |-> "None"]
NoExc == [type |-> "", line |-> 0]

Built(b) == [exc |-> NoExc, block |-> b]
Raised(type, line) == [exc |-> [type |-> type, line |-> line], block |-> NoBlock]

(***************************************************************************)
(* Channel arithmetic of the constructors.                                  *)
(***************************************************************************)
ResidualBlock_midle_channels(in_channels, out_channels) ==
    LET midle_channels == in_channels + out_channels
    IN  IF midle_channels % 2 = 0
        THEN midle_channels \div 2
        ELSE midle_channels \div 2 + 1

DenseBlock_midle_channels(in_channels) ==
    IF in_channels % 2 = 0
    THEN in_channels \div 2
    ELSE in_channels \div 2 + 1

\* A faulty median_channels, the quotient rounded up instead of down: C10
\* must not hold of it.
median_channels_rounded_up(in_channels, downsample) ==
    (in_channels + downsample - 1) \div downsample

median_channels(in_channels, downsample) == in_channels \div downsample

(***************************************************************************)
(* Constructors.  Each returns the exception of the first statement that    *)
(* raises, or the module with the layers it holds.                          *)
(***************************************************************************)
ResidualBlock_init(in_channels, out_channels, depth_wise, bottleneck) ==
    LET locals == {"self", "in_channels", "out_channels", "depth_wise",
                   "bottleneck", "midle_channels", "current", "conv_layers"}
        midle_channels == ResidualBlock_midle_channels(in_channels, out_channels)
        current == IF bottleneck THEN midle_channels ELSE in_channels
        reduce == IF bottleneck
                  THEN <<Conv2d(in_channels, midle_channels, 1, 1, 0, 1),
                         BatchNorm2d(midle_channels), ReLU>>
                  ELSE <<>>
        \* the test reads the name depthwise; were it bound it would stand
        \* for the parameter depth_wise
        conv == IF depth_wise
                THEN <<Conv2d(current, current, 3, 1, 1, current),
                       Conv2d(current, out_channels, 1, 1, 0, 1)>>
                ELSE <<Conv2d(current, out_channels, 3, 1, 1, 1)>>
        tail == <<BatchNorm2d(out_channels), ReLU,
                  Conv2d(out_channels, out_channels, 1, 1, 0, 1),
                  BatchNorm2d(out_channels)>>
    IN  IF bottleneck /\ "ReLu" \notin NNNames THEN Raised("AttributeError", 39)
        ELSE IF ~Bound("depthwise", locals) THEN Raised("NameError", 42)
        ELSE IF "ReLu" \notin NNNames THEN Raised("AttributeError", 49)
        ELSE Built([cls |-> "ResidualBlock",
                    mainbranch |-> reduce \o conv \o tail,
                    skip |-> IF in_channels # out_channels
                             THEN <<Conv2d(in_channels, out_channels, 1, 1, 0, 1)>>
                             ELSE <<>>])

\* No path through DenseBlock.__init__ reaches its end: the layers it would
\* append (lines 86-98: with bottleneck a 1x1 convolution, batch norm and
\* ReLU; then the convolutions of lines 92-95; then batch norm and ReLU)
\* are dropped with the frame of the call that raises.
DenseBlock_init(in_channels, depth_wise, bottleneck) ==
    LET locals == {"self", "in_channels", "depth_wise", "bottleneck",
                   "midle_channels", "current", "conv_layers"}
    IN  IF bottleneck /\ "ReLu" \notin NNNames THEN Raised("AttributeError", 88)
        ELSE IF ~Bound("depthwise", locals) THEN Raised("NameError", 91)
        ELSE IF ~Bound("out_channels", locals) THEN Raised("NameError", 97)
        ELSE IF "ReLu" \notin NNNames THEN Raised("AttributeError", 98)
        \* line 102 multiplies a BatchNorm2d module by 2
        ELSE Raised("TypeError", 102)

ConvBottleneck_init(in_channels, downsample, depth_wise) ==
    LET locals == {"self", "in_channels", "downsample", "depth_wise",
                   "conv_layers", "median_channels"}
        median == median_channels(in_channels, downsample)
    IN  IF ~Bound("BottleneckBlock", locals) THEN Raised("NameError", 122)
        ELSE IF "ReLu" \notin NNNames THEN Raised("AttributeError", 128)
        \* Conv2d refuses groups = 0
        ELSE IF depth_wise /\ median = 0 THEN Raised("ValueError", 130)
        \* line 133 calls ModuleList.append with keyword arguments
        ELSE IF ~depth_wise THEN Raised("TypeError", 133)
        ELSE Built([cls |-> "ConvBottleneck",
                    conv_blocks |->
                        <<Conv2d(in_channels, median, 1, 1, 0, 1),
                          BatchNorm2d(median), ReLU,
                          Conv2d(median, median, 3, 1, 1, median),
                          Conv2d(median, median, 1, 1, 0, 1),
                          BatchNorm2d(median), ReLU,
                          Conv2d(median, in_channels, 1, 1, 0, 1),
                          BatchNorm2d(in_channels), ReLU>>])

\* A faulty InceptionBlock_init, the 3x3 convolution without its padding:
\* C9 must not hold of it.
InceptionBlock_init_unpadded(in_channels) ==
    LET out_1 == in_channels \div 4
    IN  Built([cls |-> "InceptionBlock",
               conv1x1_1 |-> Conv2d(in_channels, in_channels \div 2, 1, 1, 0, 1),
               conv1x1_2 |-> Conv2d(in_channels, out_1, 1, 1, 0, 1),
               conv3x3 |-> Conv2d(out_1, 3 * out_1, 3, 1, 0, 1),
               conv1x1_3 |-> Conv2d(in_channels, out_1, 1, 1, 0, 1),
               conv5x5 |-> Conv2d(out_1, (3 * out_1) \div 2, 1, 1, 0, 1),
               conv1x1_4 |-> Conv2d(in_channels, out_1, 1, 1, 0, 1)])

InceptionBlock_init(in_channels) ==
    LET out_1 == in_channels \div 4
    IN  Built([cls |-> "InceptionBlock",
               conv1x1_1 |-> Conv2d(in_channels, in_channels \div 2, 1, 1, 0, 1),
               conv1x1_2 |-> Conv2d(in_channels, out_1, 1, 1, 0, 1),
               conv3x3 |-> Conv2d(out_1, 3 * out_1, 3, 1, 1, 1),
               conv1x1_3 |-> Conv2d(in_channels, out_1, 1, 1, 0, 1),
               conv5x5 |-> Conv2d(out_1, (3 * out_1) \div 2, 1, 1, 0, 1),
               conv1x1_4 |-> Conv2d(in_channels, out_1, 1, 1, 0, 1)])

SqueezeAndExciteBlock_init(in_channels, downsample) ==
    LET median == median_channels(in_channels, downsample)
    IN  Built([cls |-> "SqueezeAndExciteBlock",
               fully_connected_1 |-> Linear(in_channels, median),
               fully_connected_2 |-> Linear(median, in_channels)])

\* The call cls(...) with the arguments a.
Construct_call(c, a) ==
    CASE c = "ResidualBlock" ->
            ResidualBlock_init(a.in_channels, a.out_channels, a.depth_wise, a.bottleneck)
      [] c = "DenseBlock" ->
            DenseBlock_init(a.in_channels, a.depth_wise, a.bottleneck)
      [] c = "ConvBottleneck" ->
            ConvBottleneck_init(a.in_channels, a.downsample, a.depth_wise)
      [] c = "InceptionBlock" ->
            InceptionBlock_init(a.in_channels)
      [] c = "SqueezeAndExciteBlock" ->
            SqueezeAndExciteBlock_init(a.in_channels, a.downsample)

(***************************************************************************)
(* Tensors.  id 0 is the caller's tensor x; an operation that allocates     *)
(* its result gives it id 1.  written counts the in-place writes to the     *)
(* tensor.  parts lists the channel segments (name, width) the tensor was   *)
(* concatenated from, log the layer applications that produced it: each     *)
(* entry has the operation, its kernel size, stride and padding, the        *)
(* (H, W) of every operand and the (H, W) of the result.                    *)
(***************************************************************************)
Tensor(c, h, w) ==
    [err |-> "", id |-> 0, written |-> 0, c |-> c, h |-> h, w |-> w,
     parts |-> <<[name |-> "x", c |-> c]>>, log |-> <<>>]

NoTensor ==
    [err |-> "", id |-> 0, written |-> 0, c |-> 0, h |-> 0, w |-> 0,
     parts |-> <<>>, log |-> <<>>]

Entry(op, kernel_size, stride, padding, ins, res) ==
    [op |-> op, kernel_size |-> kernel_size, stride |-> stride,
     padding |-> padding, ins |-> ins, out |-> res]

HW(t) == <<t.h, t.w>>

Fail(t, type) == [t EXCEPT !.err = type]

\* The result of an out-of-place operation on t, of shape (c, h, w).
Fresh(t, name, c, h, w, entry) ==
    [t EXCEPT !.id = 1, !.written = 0, !.c = c, !.h = h, !.w = w,
              !.parts = <<[name |-> name, c |-> c]>>,
              !.log = Append(t.log, entry)]

Named(t, name) == [t EXCEPT !.parts = <<[name |-> name, c |-> t.c]>>]

\* Output size of a convolution or pooling window along one axis.
WindowOut(size, kernel_size, stride, padding) ==
    (size + 2 * padding - kernel_size) \div stride + 1

\* nn.Conv2d applied to t.  The input must have the layer's in_channels.
\* A layer sized with 0 output channels has an empty weight; the file does
\* not pin the torch it runs on, and torch_build says whether the
\* installed one refuses to apply such a layer (weight smaller than groups
\* along its first axis) or returns an empty tensor.
Conv2d_forward(layer, t) ==
    LET h == WindowOut(t.h, layer.kernel_size, layer.stride, layer.padding)
        w == WindowOut(t.w, layer.kernel_size, layer.stride, layer.padding)
    IN  IF t.err # "" THEN t
        ELSE IF t.c # layer.in_channels THEN Fail(t, "RuntimeError")
        ELSE IF torch_build = "rejects_empty" /\ layer.out_channels < layer.groups
             THEN Fail(t, "RuntimeError")
        ELSE IF h < 1 \/ w < 1 THEN Fail(t, "RuntimeError")
        ELSE Fresh(t, "conv", layer.out_channels, h, w,
                   Entry("Conv2d", layer.kernel_size, layer.stride, layer.padding,
                         <<HW(t)>>, <<h, w>>))

BatchNorm2d_forward(layer, t) ==
    IF t.err # "" THEN t
    ELSE IF t.c # layer.in_channels THEN Fail(t, "RuntimeError")
    ELSE Fresh(t, "bn", t.c, t.h, t.w, Entry("BatchNorm2d", 0, 0, 0, <<HW(t)>>, HW(t)))

relu(t) ==
    IF t.err # "" THEN t
    ELSE Fresh(t, "relu", t.c, t.h, t.w, Entry("relu", 0, 0, 0, <<HW(t)>>, HW(t)))

sigmoid(t) ==
    IF t.err # "" THEN t
    ELSE Fresh(t, "sigmoid", t.c, t.h, t.w, Entry("sigmoid", 0, 0, 0, <<HW(t)>>, HW(t)))

\* nn.Linear on a tensor viewed as (N, features): c holds the features.
Linear_forward(layer, t) ==
    IF t.err # "" THEN t
    ELSE IF t.c # layer.in_channels THEN Fail(t, "RuntimeError")
    ELSE Fresh(t, "linear", layer.out_channels, 1, 1,
               Entry("Linear", 0, 0, 0, <<HW(t)>>, <<1, 1>>))

max_pool2d(t, kernel_size, stride, padding) ==
    LET h == WindowOut(t.h, kernel_size, stride, padding)
        w == WindowOut(t.w, kernel_size, stride, padding)
    IN  IF t.err # "" THEN t
        ELSE IF 2 * padding > kernel_size \/ h < 1 \/ w < 1 THEN Fail(t, "RuntimeError")
        ELSE Fresh(t, "max_pool", t.c, h, w,
                   Entry("max_pool2d", kernel_size, stride, padding, <<HW(t)>>, <<h, w>>))

adaptive_avg_pool2d(t, h, w) ==
    IF t.err # "" THEN t
    ELSE Fresh(t, "avg_pool", t.c, h, w,
               Entry("adaptive_avg_pool2d", 0, 0, 0, <<HW(t)>>, <<h, w>>))

\* t.view(t.size(0), -1): the same storage seen as (N, C*H*W); c holds C*H*W.
view_flat(t) ==
    IF t.err # "" THEN t
    ELSE IF t.c * t.h * t.w = 0 THEN Fail(t, "RuntimeError")
    ELSE [t EXCEPT !.c = t.c * t.h * t.w, !.h = 1, !.w = 1,
                   !.parts = <<[name |-> t.parts[1].name, c |-> t.c * t.h * t.w]>>]

\* t.view(t.size(0), -1, 1, 1) of a tensor seen as (N, features).
view_channels(t) ==
    IF t.err # "" THEN t
    ELSE IF t.c = 0 THEN Fail(t, "RuntimeError")
    ELSE t

Layer_forward(layer, t) ==
    CASE layer.kind = "Conv2d" -> Conv2d_forward(layer, t)
      [] layer.kind = "BatchNorm2d" -> BatchNorm2d_forward(layer, t)
      [] layer.kind = "ReLU" -> relu(t)
      [] layer.kind = "Linear" -> Linear_forward(layer, t)

\* nn.Sequential: the layers in order; with no layer it returns its argument.
RECURSIVE Sequential_forward(_, _)
Sequential_forward(layers, t) ==
    IF layers = <<>> THEN t
    ELSE Sequential_forward(Tail(layers), Layer_forward(Head(layers), t))

Broadcast(a, b) == a = b \/ a = 1 \/ b = 1
Larger(a, b) == IF a >= b THEN a ELSE b

\* a * b, elementwise with broadcasting, into a new tensor.
mul(a, b, name) ==
    IF a.err # "" THEN a
    ELSE IF b.err # "" THEN Fail(a, b.err)
    ELSE IF ~(Broadcast(a.c, b.c) /\ Broadcast(a.h, b.h) /\ Broadcast(a.w, b.w))
         THEN Fail(a, "RuntimeError")
    ELSE [err |-> "", id |-> 1, written |-> 0, c |-> Larger(a.c, b.c),
          h |-> Larger(a.h, b.h), w |-> Larger(a.w, b.w),
          parts |-> <<[name |-> name, c |-> Larger(a.c, b.c)]>>,
          log |-> Append(a.log \o b.log,
                         Entry("mul", 0, 0, 0, <<HW(a), HW(b)>>,
                               <<Larger(a.h, b.h), Larger(a.w, b.w)>>))]

\* a += b: written into a, which keeps its identity and its shape.
iadd(a, b) ==
    IF a.err # "" THEN a
    ELSE IF b.err # "" THEN Fail(a, b.err)
    ELSE IF ~(a.c = Larger(a.c, b.c) /\ Broadcast(a.c, b.c)
              /\ a.h = Larger(a.h, b.h) /\ Broadcast(a.h, b.h)
              /\ a.w = Larger(a.w, b.w) /\ Broadcast(a.w, b.w))
         THEN Fail(a, "RuntimeError")
    ELSE [a EXCEPT !.written = a.written + 1,
                   !.log = Append(a.log \o b.log,
                                  Entry("iadd", 0, 0, 0, <<HW(a), HW(b)>>, HW(a)))]

RECURSIVE SumC(_)
SumC(ts) == IF ts = <<>> THEN 0 ELSE Head(ts).c + SumC(Tail(ts))

RECURSIVE Parts(_)
Parts(ts) == IF ts = <<>> THEN <<>> ELSE Head(ts).parts \o Parts(Tail(ts))

RECURSIVE Logs(_)
Logs(ts) == IF ts = <<>> THEN <<>> ELSE Head(ts).log \o Logs(Tail(ts))

\* torch.cat(ts, 1): the operands side by side on the channel axis.
cat(ts) ==
    LET first == ts[1]
        bad == {i \in 1..Len(ts) : ts[i].err # ""}
    IN  IF bad # {} THEN Fail(first, ts[CHOOSE i \in bad : \A j \in bad : i <= j].err)
        ELSE IF \E i \in 1..Len(ts) :
                    ts[i].h # first.h \/ ts[i].w # first.w
             THEN Fail(first, "RuntimeError")
        ELSE [err |-> "", id |-> 1, written |-> 0, c |-> SumC(ts),
              h |-> first.h, w |-> first.w, parts |-> Parts(ts),
              log |-> Append(Logs(ts),
                             Entry("cat", 0, 0, 0,
                                   [i \in 1..Len(ts) |-> HW(ts[i])], HW(first)))]

(***************************************************************************)
(* forward methods.  Each returns the value of the call, the caller's       *)
(* tensor as the call leaves it, and the module as the call leaves it.      *)
(***************************************************************************)
\* The caller's tensor t after a call that produced v: written to when v
\* is t itself.
After(t, v) == IF v.id = t.id /\ v.err = "" THEN [t EXCEPT !.written = v.written] ELSE t

ResidualBlock_forward(b, t) ==
    LET main == Sequential_forward(b.mainbranch, t)
        output == iadd(main, Sequential_forward(b.skip, t))
    IN  [out |-> relu(output), x |-> After(t, output), block |-> b]

DenseBlock_forward(b, t) ==
    LET output == Sequential_forward(b.dense, t)
    IN  [out |-> Sequential_forward(b.regularise, cat(<<t, output>>)),
         x |-> t, block |-> b]

ConvBottleneck_forward(b, t) ==
    [out |-> Sequential_forward(b.conv_blocks, t), x |-> t, block |-> b]

InceptionBlock_forward(b, t) ==
    LET branch_1 == relu(Conv2d_forward(b.conv1x1_1, t))
        branch_2 == relu(Conv2d_forward(b.conv3x3, relu(Conv2d_forward(b.conv1x1_2, t))))
        branch_3 == relu(Conv2d_forward(b.conv5x5, relu(Conv2d_forward(b.conv1x1_3, t))))
        branch_4 == relu(Conv2d_forward(b.conv1x1_4, max_pool2d(t, 3, 1, 1)))
    IN  [out |-> cat(<<Named(branch_1, "branch_1"), Named(branch_2, "branch_2"),
                       Named(branch_3, "branch_3"), Named(branch_4, "branch_4")>>),
         x |-> t, block |-> b]

\* A faulty SqueezeAndExciteBlock_forward, the product written into x
\* (x *= output) instead of into a new tensor: C7 must not hold of it.
SqueezeAndExciteBlock_forward_inplace(b, t) ==
    LET pooled == view_flat(adaptive_avg_pool2d(t, 1, 1))
        hidden == relu(Linear_forward(b.fully_connected_1, pooled))
        gate == view_channels(sigmoid(Linear_forward(b.fully_connected_2, hidden)))
        product == mul(t, gate, "x*gate")
        output == IF product.err # "" THEN product
                  ELSE [product EXCEPT !.id = t.id, !.written = t.written + 1]
    IN  [out |-> cat(<<output, output>>), x |-> After(t, output), block |-> b]

SqueezeAndExciteBlock_forward(b, t) ==
    LET pooled == view_flat(adaptive_avg_pool2d(t, 1, 1))
        hidden == relu(Linear_forward(b.fully_connected_1, pooled))
        gate == view_channels(sigmoid(Linear_forward(b.fully_connected_2, hidden)))
        output == mul(t, gate, "x*gate")
    IN  [out |-> cat(<<t, output>>), x |-> t, block |-> b]

\* block(t): nn.Module.__call__ runs the forward of the block's class.
Forward_call(b, t) ==
    CASE b.cls = "ResidualBlock" -> ResidualBlock_forward(b, t)
      [] b.cls = "DenseBlock" -> DenseBlock_forward(b, t)
      [] b.cls = "ConvBottleneck" -> ConvBottleneck_forward(b, t)
      [] b.cls = "InceptionBlock" -> InceptionBlock_forward(b, t)
      [] b.cls = "SqueezeAndExciteBlock" -> SqueezeAndExciteBlock_forward(b, t)

(***************************************************************************)
(* The caller.                                                              *)
(***************************************************************************)
NoArgs ==
    [in_channels |-> 0, out_channels |-> 0, downsample |-> 0,
     depth_wise |-> FALSE, bottleneck |-> FALSE]

\* The constructor calls of class c; a field the class has no parameter
\* for keeps its value in NoArgs.
ArgsOf(c) ==
    CASE c = "ResidualBlock" ->
            {[NoArgs EXCEPT !.in_channels = i, !.out_channels = o,
                            !.depth_wise = d, !.bottleneck = k] :
                i \in Channels, o \in Channels, d \in BOOLEAN, k \in BOOLEAN}
      [] c = "DenseBlock" ->
            {[NoArgs EXCEPT !.in_channels = i, !.depth_wise = d, !.bottleneck = k] :
                i \in Channels, d \in BOOLEAN, k \in BOOLEAN}
      [] c = "ConvBottleneck" ->
            {[NoArgs EXCEPT !.in_channels = i, !.downsample = s, !.depth_wise = d] :
                i \in Channels, s \in Downsamples, d \in BOOLEAN}
      [] c = "InceptionBlock" ->
            {[NoArgs EXCEPT !.in_channels = i] : i \in Channels}
      [] c = "SqueezeAndExciteBlock" ->
            {[NoArgs EXCEPT !.in_channels = i, !.downsample = s] :
                i \in Channels, s \in Downsamples}

Shape(t) == <<t.c, t.h, t.w>>

\* What a call gave its caller: the shape of the tensor, or the exception.
Outcome(t) == IF t.err # "" THEN <<t.err>> ELSE Shape(t)

\* A forward call was made; a second one was made after it.
Called == x # NoTensor
CalledTwice == prev.x # <<>>

Init ==
    /\ pc = "imported"
    /\ torch_build \in {"accepts_empty", "rejects_empty"}
    /\ cls = "None"
    /\ args = NoArgs
    /\ block = NoBlock
    /\ exc = NoExc
    /\ x = NoTensor
    /\ out = NoTensor
    /\ prev = [x |-> <<>>, out |-> <<>>]

\* block = cls(...)
Construct ==
    /\ pc = "imported"
    /\ \E c \in Classes : \E a \in ArgsOf(c) :
         LET r == Construct_call(c, a)
         IN  /\ cls' = c
             /\ args' = a
             /\ block' = r.block
             /\ exc' = r.exc
             /\ pc' = IF r.exc = NoExc THEN "constructed" ELSE "raised"
    /\ UNCHANGED <<torch_build, x, out, prev>>

\* out = block(x)
Forward ==
    /\ pc = "constructed"
    /\ \E c \in Channels, h \in Sizes, w \in Sizes :
         \E r \in {Forward_call(block, Tensor(c, h, w))} :
             /\ out' = r.out
             /\ x' = r.x
             /\ block' = r.block
    /\ prev' = IF Called THEN [x |-> Shape(x), out |-> Outcome(out)] ELSE prev
    /\ UNCHANGED <<pc, torch_build, cls, args, exc>>

Next == Construct \/ Forward

Spec == Init /\ [][Next]_vars

(***************************************************************************)
(* Vocabulary of the properties.                                            *)
(***************************************************************************)
\* A forward call was made on an input with the block's in_channels channels.
CalledOnInChannels == Called /\ x.c = args.in_channels

\* Every layer a constructed block holds.
RECURSIVE SeqRange(_)
SeqRange(q) == IF q = <<>> THEN {} ELSE {Head(q)} \cup SeqRange(Tail(q))

BlockLayers(b) ==
    CASE b.cls = "ResidualBlock" -> SeqRange(b.mainbranch) \cup SeqRange(b.skip)
      [] b.cls = "DenseBlock" -> SeqRange(b.dense) \cup SeqRange(b.regularise)
      [] b.cls = "ConvBottleneck" -> SeqRange(b.conv_blocks)
      [] b.cls = "InceptionBlock" ->
            {b.conv1x1_1, b.conv1x1_2, b.conv3x3, b.conv1x1_3, b.conv5x5, b.conv1x1_4}
      [] b.cls = "SqueezeAndExciteBlock" -> {b.fully_connected_1, b.fully_connected_2}
      [] OTHER -> {}

Kinds(layers) == [i \in 1..Len(layers) |-> layers[i].kind]

\* The log entries of a tensor whose operation is one of ops.
Entries(t, ops) == {t.log[i] : i \in {j \in 1..Len(t.log) : t.log[j].op \in ops}}

\* The kernel sizes of the convolutions that produced t, in order.
RECURSIVE KernelSizes(_)
KernelSizes(log) ==
    IF log = <<>> THEN <<>>
    ELSE IF Head(log).op = "Conv2d"
         THEN <<Head(log).kernel_size>> \o KernelSizes(Tail(log))
         ELSE KernelSizes(Tail(log))

SameSize(entry) == \A i \in 1..Len(entry.ins) : entry.ins[i] = entry.ins[1]

(***************************************************************************)
(* C1.  For each of the five classes and every combination of positive      *)
(* channel counts and flags, the constructor completes without raising,     *)
(* and calling the block on a tensor with in_channels channels returns a    *)
(* tensor.                                                                  *)
(***************************************************************************)
C1_ConstructAndCallReturn ==
    /\ pc # "imported" => pc = "constructed" /\ exc = NoExc
    /\ CalledOnInChannels => out.err = ""

(***************************************************************************)
(* C2.  ResidualBlock: the main branch ends with out_channels channels,     *)
(* the skip branch is the identity when in_channels = out_channels and a    *)
(* 1x1 convolution to out_channels otherwise, and the output of a call on   *)
(* an input with in_channels channels has exactly out_channels channels.    *)
(***************************************************************************)
C2_ResidualOutChannels ==
    cls = "ResidualBlock" =>
        /\ pc = "constructed"
        /\ block.mainbranch[Len(block.mainbranch)].out_channels = args.out_channels
        /\ block.skip = IF args.in_channels = args.out_channels
                        THEN <<>>
                        ELSE <<Conv2d(args.in_channels, args.out_channels, 1, 1, 0, 1)>>
        /\ CalledOnInChannels => out.err = "" /\ out.c = args.out_channels

(***************************************************************************)
(* C3.  DenseBlock: the dense branch gives in_channels channels, the        *)
(* forward pass concatenates the input with it into 2*in_channels           *)
(* channels, which is what the regularise stage expects, and the output     *)
(* has 2*in_channels channels.                                              *)
(***************************************************************************)
C3_DenseOutChannels ==
    cls = "DenseBlock" =>
        /\ pc = "constructed"
        /\ block.regularise[1].in_channels = 2 * args.in_channels
        /\ CalledOnInChannels => out.err = "" /\ out.c = 2 * args.in_channels

(***************************************************************************)
(* C4.  ConvBottleneck: convolutions with kernels 1x1, 3x3, 1x1 in that     *)
(* order, in_channels -> in_channels // downsample -> the same ->           *)
(* in_channels, so the output has the channel count of the input.           *)
(***************************************************************************)
C4_BottleneckKeepsChannels ==
    cls = "ConvBottleneck" =>
        /\ pc = "constructed"
        /\ block.conv_blocks[1].out_channels
             = args.in_channels \div args.downsample
        /\ CalledOnInChannels =>
             /\ out.err = ""
             /\ out.c = x.c
             /\ KernelSizes(out.log) = <<1, 3, 1>>

(***************************************************************************)
(* C5.  InceptionBlock: for every in_channels the output is the             *)
(* concatenation of branch_1, branch_2, branch_3, branch_4 in that order,   *)
(* of in_channels // 2 + 3*q + (3*q) // 2 + q channels with                 *)
(* q = in_channels // 4, and the second layer of branch_2 and of branch_3   *)
(* takes the q channels their first 1x1 layer produces.                     *)
(***************************************************************************)
C5_InceptionConcat ==
    cls = "InceptionBlock" /\ CalledOnInChannels =>
        LET q == args.in_channels \div 4
        IN  /\ out.err = ""
            /\ out.parts = <<[name |-> "branch_1", c |-> args.in_channels \div 2],
                             [name |-> "branch_2", c |-> 3 * q],
                             [name |-> "branch_3", c |-> (3 * q) \div 2],
                             [name |-> "branch_4", c |-> q]>>
            /\ out.c = args.in_channels \div 2 + 3 * q + (3 * q) \div 2 + q
            /\ block.conv1x1_2.out_channels = q /\ block.conv3x3.in_channels = q
            /\ block.conv1x1_3.out_channels = q /\ block.conv5x5.in_channels = q

(***************************************************************************)
(* C6.  SqueezeAndExciteBlock: forward returns the input multiplied by      *)
(* the per-channel gate, a tensor with the channel count and shape of       *)
(* the input.                                                               *)
(***************************************************************************)
C6_SqueezeKeepsShape ==
    cls = "SqueezeAndExciteBlock" /\ CalledOnInChannels =>
        /\ out.err = ""
        /\ out.parts = <<[name |-> "x*gate", c |-> x.c]>>
        /\ Shape(out) = Shape(x)

(***************************************************************************)
(* C7.  A forward call on a constructed block leaves the block's layers,    *)
(* their order and their channel configuration as the constructor made      *)
(* them, does not write to the input tensor x, and a second call on an      *)
(* input of the same shape gives an output of the same shape.               *)
(***************************************************************************)
C7_ForwardKeepsState ==
    Called =>
        /\ block = Construct_call(cls, args).block
        /\ x = Tensor(x.c, x.h, x.w)
        /\ CalledTwice /\ prev.x = Shape(x) => prev.out = Outcome(out)

C7_Witness ==
    /\ cls = "SqueezeAndExciteBlock"
    /\ CalledTwice
    /\ prev.x = Shape(x)
    /\ out.err = ""
    /\ x.h = 2

(***************************************************************************)
(* C8.  DenseBlock without bottleneck and with depth_wise: the dense        *)
(* branch applies batch norm, ReLU, the first convolution, the second       *)
(* convolution, in that order.                                              *)
(***************************************************************************)
C8_DenseOrder ==
    cls = "DenseBlock" /\ ~args.bottleneck /\ args.depth_wise =>
        /\ pc = "constructed"
        /\ Kinds(block.dense) = <<"BatchNorm2d", "ReLU", "Conv2d", "Conv2d">>

(***************************************************************************)
(* C9, as stated.  Every convolution and pooling layer has stride 1 and     *)
(* padding (kernel_size - 1) / 2 and gives an output of the H and W of      *)
(* its input, and the operands of every sum and concatenation have the      *)
(* same H and W.                                                            *)
(***************************************************************************)
C9_EveryLayerKeepsSize ==
    Called =>
        /\ \A e \in Entries(out, {"Conv2d", "max_pool2d"}) :
             e.stride = 1 /\ 2 * e.padding = e.kernel_size - 1
        /\ \A e \in Entries(out, {"Conv2d", "max_pool2d", "adaptive_avg_pool2d"}) :
             e.out = e.ins[1]
        /\ \A e \in Entries(out, {"iadd", "cat"}) : SameSize(e)

(***************************************************************************)
(* C9, amended.  Every convolution and max-pooling layer has stride 1 and   *)
(* padding (kernel_size - 1) / 2 and gives an output of the H and W of      *)
(* its input; the global average pool of SqueezeAndExciteBlock gives a      *)
(* 1x1 output, and the gate made from it is broadcast over the H and W of   *)
(* the input; the operands of every sum and concatenation have the same     *)
(* H and W.                                                                 *)
(***************************************************************************)
C9_WindowLayersKeepSize ==
    /\ pc = "constructed" =>
         \A l \in BlockLayers(block) :
            l.kind = "Conv2d" => l.stride = 1 /\ 2 * l.padding = l.kernel_size - 1
    /\ Called =>
         /\ \A e \in Entries(out, {"Conv2d", "max_pool2d"}) :
              e.stride = 1 /\ 2 * e.padding = e.kernel_size - 1 /\ e.out = e.ins[1]
         /\ \A e \in Entries(out, {"adaptive_avg_pool2d"}) : e.out = <<1, 1>>
         /\ \A e \in Entries(out, {"mul"}) :
              e.ins = <<HW(x), <<1, 1>>>> /\ e.out = HW(x)
         /\ \A e \in Entries(out, {"iadd", "cat"}) : SameSize(e) /\ e.out = HW(x)

C9_Witness ==
    /\ cls = "InceptionBlock"
    /\ Called
    /\ out.err = ""
    /\ x.h = 2 /\ x.w = 1
    /\ Entries(out, {"max_pool2d"}) # {}
    /\ \E e \in Entries(out, {"cat"}) : Len(e.ins) = 4

(***************************************************************************)
(* C10.  For positive parameters: ResidualBlock's midle_channels is the     *)
(* ceiling of (in_channels + out_channels) / 2 and lies between the         *)
(* smaller and the larger of the two; DenseBlock's midle_channels is the    *)
(* ceiling of in_channels / 2 and at least 1; median_channels is            *)
(* in_channels // downsample, at most in_channels, at least 1 exactly       *)
(* when downsample <= in_channels and 0 otherwise.                          *)
(***************************************************************************)
IsCeilingOfHalf(m, a) == 2 * m >= a /\ 2 * (m - 1) < a

IsFloorOfQuotient(m, a, d) == m * d <= a /\ a < (m + 1) * d

C10_ChannelArithmetic ==
    LET i == args.in_channels
        o == args.out_channels
        d == args.downsample
    IN  /\ cls = "ResidualBlock" =>
             LET m == ResidualBlock_midle_channels(i, o)
             IN  /\ IsCeilingOfHalf(m, i + o)
                 /\ (IF i <= o THEN i ELSE o) <= m
                 /\ m <= Larger(i, o)
        /\ cls = "DenseBlock" =>
             LET m == DenseBlock_midle_channels(i)
             IN  IsCeilingOfHalf(m, i) /\ m >= 1
        /\ cls \in {"ConvBottleneck", "SqueezeAndExciteBlock"} =>
             LET m == median_channels(i, d)
             IN  /\ IsFloorOfQuotient(m, i, d)
                 /\ m <= i
                 /\ (m >= 1) <=> (d <= i)
                 /\ d > i => m = 0
        /\ cls = "SqueezeAndExciteBlock" /\ pc = "constructed" =>
             /\ IsFloorOfQuotient(block.fully_connected_1.out_channels, i, d)
             /\ block.fully_connected_2.in_channels
                  = block.fully_connected_1.out_channels

C10_Witness ==
    /\ cls = "SqueezeAndExciteBlock"
    /\ pc = "constructed"
    /\ args.downsample > args.in_channels
    /\ block.fully_connected_1.out_channels = 0

====
